---- MODULE Spec2Model ----
(***************************************************************************)
(* A model of statelyx/pdfconverter.                                       *)
(*                                                                         *)
(* Part I  (specification Spec): the browser front end: the tool wizard    *)
(*   (openTool, closeModal, handleFiles, goToStep of the application       *)
(*   script), processFiles and the backend/browser converters it awaits    *)
(*   (js/processing.js, js/converters.js), one event-loop task per action. *)
(* Part II (specification PipeSpec): the layout-preserving translation     *)
(*   pipeline of the backend, which is not part of the sources at hand and *)
(*   is modelled from its design document.                                 *)
(***************************************************************************)
EXTENDS Integers, Sequences, FiniteSets, TLC

(***************************************************************************)
(* Bounds of the model.                                                    *)
(***************************************************************************)
\* the longest state.files the model lets handleFiles build
MaxFiles == 2
\* the number of pending setTimeout(goToStep(2), 300) callbacks
MaxTimers == 1
\* the number of processFiles invocations that get past the empty-selection
\* check in one behaviour
MaxRuns == 1
\* the most spans the extractor yields for the page
MaxSpans == 3
\* the pool's limit of concurrent in-flight provider calls
PoolLimit == 2
\* the providers of the fallback list
NProviders == 2
\* the fixed attempt count per provider
MaxAttempts == 3
\* the longest translated text handed to the Layout Fitter, in characters
MaxTextLen == 10

(***************************************************************************)
(* Strings are sequences of one-character strings, so that                 *)
(* String.prototype.replace and suffix tests are computed, not assumed.    *)
(***************************************************************************)
DotPdf == <<".", "p", "d", "f">>
DotHtml == <<".", "h", "t", "m", "l">>
CeviriTr == <<"_", "c", "e", "v", "i", "r", "i", "_", "t", "r">>

\* s starts with pat at position k
MatchAt(s, pat, k) ==
    /\ k + Len(pat) - 1 <= Len(s)
    /\ \A j \in 1..Len(pat) : s[k + j - 1] = pat[j]

\* String.prototype.indexOf: the first position of pat in s, 0 when absent
IndexOf(s, pat) ==
    IF \E k \in 1..Len(s) : MatchAt(s, pat, k)
    THEN CHOOSE k \in 1..Len(s) :
            /\ MatchAt(s, pat, k)
            /\ \A m \in 1..(k - 1) : ~MatchAt(s, pat, m)
    ELSE 0

\* String.prototype.replace(pat, repl) with a string pattern: the first
\* occurrence only, the string unchanged when there is none
Replace(s, pat, repl) ==
    LET k == IndexOf(s, pat) IN
    IF k = 0 THEN s
    ELSE SubSeq(s, 1, k - 1) \o repl \o SubSeq(s, k + Len(pat), Len(s))

EndsWith(s, suf) ==
    /\ Len(suf) <= Len(s)
    /\ SubSeq(s, Len(s) - Len(suf) + 1, Len(s)) = suf

(***************************************************************************)
(* The files a user can select.  pages is the number of pages pdf.js finds *)
(* (0: getDocument rejects, the file is no readable PDF); image tells      *)
(* whether the browser can decode the file as an image.                    *)
(***************************************************************************)
FileA == [id |-> 1, name |-> <<"a">> \o DotPdf, pages |-> 2, image |-> FALSE]
FileB == [id |-> 2, name |-> <<"b", ".", "P", "D", "F">>, pages |-> 1, image |-> FALSE]
FileC == [id |-> 3, name |-> <<"c", ".", "j", "p", "g">>, pages |-> 0, image |-> TRUE]
FileSet == {FileA, FileB, FileC}

\* the FileList of one change or drop event
FileLists == {<<f>> : f \in FileSet} \cup {<<FileA, FileC>>, <<FileC, FileB>>}

(***************************************************************************)
(* toolConfig and the tool names processFiles dispatches on.               *)
(***************************************************************************)
NoTool == "null"
ConfiguredTools == {"translate", "pdf-to-word", "word-to-pdf", "jpg-to-pdf",
                    "pdf-to-jpg", "merge-pdf", "split-pdf", "compress-pdf"}
MultipleTools == {"jpg-to-pdf", "merge-pdf"}
BackendTools == {"translate", "compress-pdf", "pdf-to-word", "pdf-to-excel",
                 "pdf-to-image", "pdf-to-images"}
BrowserTools == {"word-to-pdf", "jpg-to-pdf", "pdf-to-jpg", "merge-pdf", "split-pdf"}
\* the names a tool card can carry
ToolNames == ConfiguredTools \cup BackendTools \cup BrowserTools

HasConfig(t) == t \in ConfiguredTools

VARIABLES
    currentTool,    \* state.currentTool
    files,          \* state.files
    fileList,       \* the file items displayed in #fileList
    step,           \* the step panel goToStep displayed last
    modalActive,    \* #toolModal carries the class active
    timers,         \* pending setTimeout(goToStep(2)) callbacks
    translateFormat,\* the value of #translateFormat
    toast,          \* the message showToast displayed last
    progress,       \* the width of #progressFill, in percent
    downloadResults,\* window.downloadResults, as shown in #downloadList
    run,            \* the processFiles invocation in flight
    nRuns           \* the processFiles invocations started so far

uiVars == <<currentTool, files, fileList, step, modalActive, timers,
            translateFormat, toast, progress, downloadResults, run, nRuns>>

VARIABLES
    pPhase,         \* the orchestrator's state for the request
    pDoc,           \* the document received: readable or not, and its spans
    pJobs,          \* the TranslationJob of each span
    pSlots,         \* the slots of the pool's semaphore that are taken
    pDeadline,      \* the request-level deadline has been reached
    pResults,       \* TranslationResults delivered, in completion order
    pPlans,         \* RenderPlans produced and not yet consumed
    pOutput         \* the rendered regions of the output page, in order

pipeVars == <<pPhase, pDoc, pJobs, pSlots, pDeadline, pResults, pPlans, pOutput>>

VARIABLES
    fBox,           \* the span's box the Layout Fitter is given: width, height
    fOrig,          \* the span's original font size
    fLen,           \* the length of the translated text
    fPlan           \* the RenderPlan the fitter produced for it

fitVars == <<fBox, fOrig, fLen, fPlan>>

VARIABLES
    eCall,          \* a converter call: the tool, the files selected, the await that rejects
    eRam,           \* what the converter of js/converters.js did on that call
    eOrig           \* what the converter of unnamed/part_000 did on that call

eqVars == <<eCall, eRam, eOrig>>

vars == <<uiVars, pipeVars, fitVars, eqVars>>


(***************************************************************************)
(* Helpers of the page.                                                    *)
(***************************************************************************)
Min(a, b) == IF a <= b THEN a ELSE b

\* updateProgress(p): the width written to #progressFill
UpdateProgress(p) == Min(p, 100)

\* the value i / n * 100 the converters pass to updateProgress, rounded down;
\* a division by zero gives Infinity, which updateProgress caps
Pct(i, n) == IF n = 0 THEN 100 ELSE (i * 100) \div n

Digit(i) == CASE i = 0 -> "0" [] i = 1 -> "1" [] i = 2 -> "2" [] i = 3 -> "3"
              [] i = 4 -> "4" [] OTHER -> "9"

Lower(c) == CASE c = "D" -> "d" [] c = "O" -> "o" [] c = "C" -> "c"
              [] c = "X" -> "x" [] c = "P" -> "p" [] c = "F" -> "f"
              [] OTHER -> c

LowerStr(s) == [k \in 1..Len(s) |-> Lower(s[k])]

\* the file name translatePDFBackend gives its result
TranslateName(name, format) ==
    Replace(name, DotPdf,
            CeviriTr \o (IF format = "html" THEN DotHtml ELSE DotPdf))

\* the endpoint translatePDFBackend posts to
TranslateEndpoint(format) ==
    IF format = "html" THEN "/translate-html" ELSE "/translate"

\* the endpoint each backend operation posts to
Endpoint(tool, format) ==
    CASE tool = "translate" -> TranslateEndpoint(format)
      [] tool = "compress-pdf" -> "/compress"
      [] tool = "pdf-to-word" -> "/pdf-to-word"
      [] tool = "pdf-to-excel" -> "/pdf-to-excel"
      [] tool = "pdf-to-image" -> "/pdf-to-image"
      [] OTHER -> "/pdf-to-images"

\* the result name of each backend operation
BackendName(tool, name, format) ==
    CASE tool = "translate" -> TranslateName(name, format)
      [] tool = "compress-pdf" ->
            Replace(name, DotPdf, <<"_", "c", "o", "m", "p", "r", "e", "s", "s", "e", "d">> \o DotPdf)
      [] tool = "pdf-to-word" -> Replace(name, DotPdf, <<".", "d", "o", "c", "x">>)
      [] tool = "pdf-to-excel" -> Replace(name, DotPdf, <<".", "x", "l", "s", "x">>)
      [] tool = "pdf-to-image" ->
            Replace(name, DotPdf, <<"_", "p", "a", "g", "e", "1", ".", "p", "n", "g">>)
      [] OTHER ->
            Replace(name, DotPdf, <<"_", "i", "m", "a", "g", "e", "s", ".", "z", "i", "p">>)

\* wordToPDF: name.replace(/\.(doc|docx)$/i, '.pdf')
WordPdfName(name) ==
    LET low == LowerStr(name) IN
    IF EndsWith(low, <<".", "d", "o", "c", "x">>)
    THEN SubSeq(name, 1, Len(name) - 5) \o DotPdf
    ELSE IF EndsWith(low, <<".", "d", "o", "c">>)
    THEN SubSeq(name, 1, Len(name) - 4) \o DotPdf
    ELSE name

\* `sayfa_${i}.${ext}`
PageName(i, ext) == <<"s", "a", "y", "f", "a", "_", Digit(i), ".">> \o ext

MergedName == <<"b", "i", "r", "l", "e", "s", "i", "k">> \o DotPdf
ImagesName == <<"g", "o", "r", "s", "e", "l", "l", "e", "r">> \o DotPdf
\* #outputFormat is left at its default
OutputFormat == <<"j", "p", "g">>

(***************************************************************************)
(* The processFiles invocation in flight.  pc is the await it is suspended *)
(* at; the remaining fields are its local variables and what it has shown. *)
(* The locals of an invocation that has returned, or that can never be     *)
(* resumed, are garbage and are cleared.                                   *)
(***************************************************************************)
\* page i of a file, as drawn onto a page of an output document
Page(file, i) == [file |-> file.id, page |-> i]

NoFile == [id |-> 0, name |-> <<>>, pages |-> 0, image |-> FALSE]

IdleRun == [pc |-> "idle", tool |-> NoTool, file |-> NoFile, format |-> "none",
            posts |-> <<>>, f |-> 0, i |-> 0, n |-> 0, results |-> <<>>,
            start |-> <<>>, doc |-> <<>>, pdfs |-> 0, canvases |-> 0,
            errToasts |-> 0, okToasts |-> 0, shown |-> FALSE]

Awaiting == {"fetch", "errjson", "blob", "read", "mammoth", "readurl",
             "imgload", "getdoc", "getpage", "render", "toblob", "destroy"}

UiInit ==
    /\ currentTool = NoTool
    /\ files = <<>>
    /\ fileList = <<>>
    /\ step = 1
    /\ modalActive = FALSE
    /\ timers = 0
    /\ translateFormat = "html"
    /\ toast = "none"
    /\ progress = 0
    /\ downloadResults = <<>>
    /\ run = IdleRun
    /\ nRuns = 0

(***************************************************************************)
(* The wizard.                                                             *)
(***************************************************************************)
\* openTool(toolName), the click handler of a tool card.  The cards lie
\* under the modal's backdrop, so one is clicked only while no modal is up.
OpenTool(t) ==
    /\ ~modalActive
    /\ currentTool' = t
    /\ files' = <<>>
    /\ IF HasConfig(t)
       THEN /\ fileList' = <<>>
            /\ step' = 1
            /\ modalActive' = TRUE
       ELSE UNCHANGED <<fileList, step, modalActive>>
    /\ UNCHANGED <<timers, translateFormat, toast, progress, downloadResults, run, nRuns>>
    /\ UNCHANGED <<pipeVars, fitVars, eqVars>>

\* closeModal()
CloseModal ==
    /\ modalActive
    /\ modalActive' = FALSE
    /\ files' = <<>>
    /\ currentTool' = NoTool
    /\ UNCHANGED <<fileList, step, timers, translateFormat, toast, progress,
                   downloadResults, run, nRuns>>
    /\ UNCHANGED <<pipeVars, fitVars, eqVars>>

\* the Escape key and a click on the backdrop: the handlers of modals.js
\* remove the class active and nothing else
DismissModal ==
    /\ modalActive
    /\ modalActive' = FALSE
    /\ UNCHANGED <<currentTool, files, fileList, step, timers, translateFormat,
                   toast, progress, downloadResults, run, nRuns>>
    /\ UNCHANGED <<pipeVars, fitVars, eqVars>>

\* handleFiles(fileList), from the file input's change and the upload zone's
\* drop, for selections of at most max files
AddFiles(fl, max) ==
    /\ modalActive
    /\ IF ~HasConfig(currentTool)
       THEN UNCHANGED <<files, fileList, timers>>
       ELSE LET single == currentTool \notin MultipleTools /\ Len(files) > 0
                base == IF single THEN <<>> ELSE files
                shown == IF single THEN <<>> ELSE fileList
            IN /\ Len(base \o fl) <= max
               /\ Len(shown \o fl) <= max
               /\ timers < MaxTimers
               /\ files' = base \o fl
               /\ fileList' = shown \o fl
               /\ timers' = timers + 1
    /\ UNCHANGED <<currentTool, step, modalActive, translateFormat, toast,
                   progress, downloadResults, run, nRuns>>
    /\ UNCHANGED <<pipeVars, fitVars, eqVars>>

HandleFiles(fl) == AddFiles(fl, MaxFiles)

\* the callback of setTimeout(function () { goToStep(2); }, 300)
TimerFires ==
    /\ timers > 0
    /\ timers' = timers - 1
    /\ step' = 2
    /\ UNCHANGED <<currentTool, files, fileList, modalActive, translateFormat,
                   toast, progress, downloadResults, run, nRuns>>
    /\ UNCHANGED <<pipeVars, fitVars, eqVars>>

\* the onclick of the remove button of the k-th displayed file item
RemoveFile(k) ==
    /\ modalActive
    /\ k \in 1..Len(fileList)
    /\ files' = SelectSeq(files, LAMBDA g : g.name # fileList[k].name)
    /\ fileList' = SubSeq(fileList, 1, k - 1) \o SubSeq(fileList, k + 1, Len(fileList))
    /\ step' = IF Len(files') = 0 THEN 1 ELSE step
    /\ UNCHANGED <<currentTool, modalActive, timers, translateFormat, toast,
                   progress, downloadResults, run, nRuns>>
    /\ UNCHANGED <<pipeVars, fitVars, eqVars>>

\* resetTool()
ResetTool ==
    /\ modalActive
    /\ files' = <<>>
    /\ fileList' = <<>>
    /\ step' = 1
    /\ UNCHANGED <<currentTool, modalActive, timers, translateFormat, toast,
                   progress, downloadResults, run, nRuns>>
    /\ UNCHANGED <<pipeVars, fitVars, eqVars>>

\* the user picks an output mode in #translateFormat
SetTranslateFormat(v) ==
    /\ modalActive
    /\ currentTool = "translate"
    /\ translateFormat # v
    /\ translateFormat' = v
    /\ UNCHANGED <<currentTool, files, fileList, step, modalActive, timers,
                   toast, progress, downloadResults, run, nRuns>>
    /\ UNCHANGED <<pipeVars, fitVars, eqVars>>


(***************************************************************************)
(* processFiles and the operations it awaits.  JavaScript runs one task at *)
(* a time: an action is the code from one await's settlement to the next   *)
(* await (or to the return), and the wizard's handlers run in between.     *)
(***************************************************************************)
\* showResults(results); showToast('Tamamlandı!', 'success'): the end of
\* the try block of processFiles.  The pages of the document returned stay
\* on record with the results shown.
Succeed(r, results) ==
    /\ step' = 4
    /\ downloadResults' = results
    /\ toast' = "success"
    /\ run' = [IdleRun EXCEPT !.pc = "done", !.shown = TRUE,
                              !.okToasts = r.okToasts + 1, !.doc = r.doc,
                              !.pdfs = r.pdfs, !.canvases = r.canvases]

\* mutant of Fail: the catch block without its goToStep(2)
FailKeepsStep(r) ==
    /\ toast' = "error"
    /\ step' = step
    /\ run' = [IdleRun EXCEPT !.pc = "done", !.okToasts = r.okToasts,
                              !.errToasts = r.errToasts + 1,
                              !.pdfs = r.pdfs, !.canvases = r.canvases]
    /\ UNCHANGED downloadResults

\* mutant of Fail: the catch block lists the results computed so far
FailShowsPartial(r) ==
    /\ toast' = "error"
    /\ step' = 2
    /\ run' = [IdleRun EXCEPT !.pc = "done", !.okToasts = r.okToasts,
                              !.errToasts = r.errToasts + 1,
                              !.pdfs = r.pdfs, !.canvases = r.canvases]
    /\ downloadResults' = r.results

\* the catch block of processFiles: showToast('Hata: ' + error.message,
\* 'error'); goToStep(2).  The documents and canvases the operation left
\* behind stay on record.
Fail(r) ==
    /\ toast' = "error"
    /\ step' = 2
    /\ run' = [IdleRun EXCEPT !.pc = "done", !.okToasts = r.okToasts,
                              !.errToasts = r.errToasts + 1,
                              !.pdfs = r.pdfs, !.canvases = r.canvases]
    /\ UNCHANGED downloadResults

\* the code of an operation from its call to its first await
StartRun(tool) ==
    LET r0 == [IdleRun EXCEPT !.tool = tool, !.file = files[1], !.start = files] IN
    IF tool \in BackendTools
    THEN /\ run' = [r0 EXCEPT !.pc = "fetch", !.format = translateFormat,
                              !.posts = <<Endpoint(tool, translateFormat)>>]
         /\ progress' = UpdateProgress(30)
    ELSE IF tool = "jpg-to-pdf"
    THEN /\ run' = [r0 EXCEPT !.pc = "readurl", !.f = 1]
         /\ progress' = UpdateProgress(0)
    ELSE /\ run' = [r0 EXCEPT !.pc = "read", !.f = 1]
         /\ progress' = UpdateProgress(0)

\* mutant of ProcessFiles: goToStep(3) and updateProgress(0) run before the
\* empty-selection check
ProcessFilesLateCheck ==
    /\ modalActive
    /\ IF Len(files) = 0
       THEN /\ toast' = "select"
            /\ step' = 3
            /\ progress' = UpdateProgress(0)
            /\ UNCHANGED <<currentTool, files, fileList, modalActive, timers,
                           translateFormat, downloadResults, run, nRuns>>
       ELSE /\ run.pc \in {"idle", "done", "hung"}
            /\ nRuns < MaxRuns
            /\ nRuns' = nRuns + 1
            /\ step' = 3
            /\ StartRun(currentTool)
            /\ UNCHANGED <<currentTool, files, fileList, modalActive, timers,
                           translateFormat, toast, downloadResults>>
    /\ UNCHANGED <<pipeVars, fitVars, eqVars>>

\* processFiles(), to the first await of the operation it dispatches to
ProcessFiles ==
    /\ modalActive
    /\ IF Len(files) = 0
       THEN /\ toast' = "select"
            /\ UNCHANGED <<currentTool, files, fileList, step, modalActive, timers,
                           translateFormat, progress, downloadResults, run, nRuns>>
       ELSE /\ run.pc \in {"idle", "done", "hung"}
            /\ nRuns < MaxRuns
            /\ nRuns' = nRuns + 1
            /\ IF currentTool \in BackendTools \cup BrowserTools
               THEN /\ step' = 3
                    /\ StartRun(currentTool)
                    /\ UNCHANGED <<toast, downloadResults>>
               ELSE \* no branch matches: showResults([]) without an await
                    /\ progress' = UpdateProgress(0)
                    /\ Succeed(IdleRun, <<>>)
            /\ UNCHANGED <<currentTool, files, fileList, modalActive, timers,
                           translateFormat>>
    /\ UNCHANGED <<pipeVars, fitVars, eqVars>>

\* await fetch(BACKEND_URL + endpoint, ...) settles
FetchSettles(res) ==
    /\ run.pc = "fetch"
    /\ CASE res = "ok" ->
              /\ run' = [run EXCEPT !.pc = "blob"]
              /\ progress' = UpdateProgress(90)
              /\ UNCHANGED <<step, toast, downloadResults>>
         [] res = "notok" ->
              /\ run' = [run EXCEPT !.pc = "errjson"]
              /\ UNCHANGED <<step, toast, downloadResults, progress>>
         [] OTHER ->
              /\ Fail(run)
              /\ UNCHANGED progress
    /\ UNCHANGED <<currentTool, files, fileList, modalActive, timers, translateFormat, nRuns>>
    /\ UNCHANGED <<pipeVars, fitVars, eqVars>>

\* await response.json().catch(...) settles: throw new Error(err.error ||
\* 'Backend hatası'), rethrown by the operation's catch
ErrJsonSettles ==
    /\ run.pc = "errjson"
    /\ Fail(run)
    /\ UNCHANGED <<currentTool, files, fileList, modalActive, timers,
                   translateFormat, progress, nRuns>>
    /\ UNCHANGED <<pipeVars, fitVars, eqVars>>

\* await response.blob() settles
BlobSettles(ok) ==
    /\ run.pc = "blob"
    /\ IF ok
       THEN /\ progress' = UpdateProgress(100)
            /\ Succeed([run EXCEPT !.okToasts =
                            IF run.tool = "compress-pdf" THEN @ + 1 ELSE @],
                       <<BackendName(run.tool, run.file.name, run.format)>>)
       ELSE /\ Fail(run)
            /\ UNCHANGED progress
    /\ UNCHANGED <<currentTool, files, fileList, modalActive, timers, translateFormat, nRuns>>
    /\ UNCHANGED <<pipeVars, fitVars, eqVars>>

\* await readFileAsArrayBuffer(file) settles
ReadSettles(ok) ==
    /\ run.pc = "read"
    /\ IF ok
       THEN /\ run' = [run EXCEPT !.pc = IF run.tool = "word-to-pdf"
                                         THEN "mammoth" ELSE "getdoc"]
            /\ UNCHANGED <<step, toast, downloadResults>>
       ELSE Fail(run)
    /\ UNCHANGED <<currentTool, files, fileList, modalActive, timers,
                   translateFormat, progress, nRuns>>
    /\ UNCHANGED <<pipeVars, fitVars, eqVars>>

\* wordToPDF: await mammoth.extractRawText settles; a rejection is caught
\* and the text decoded instead
MammothSettles ==
    /\ run.pc = "mammoth"
    /\ progress' = UpdateProgress(100)
    /\ Succeed(run, <<WordPdfName(run.file.name)>>)
    /\ UNCHANGED <<currentTool, files, fileList, modalActive, timers, translateFormat, nRuns>>
    /\ UNCHANGED <<pipeVars, fitVars, eqVars>>

\* await pdfjsLib.getDocument({ data: arr }).promise settles
GetDocSettles ==
    /\ run.pc = "getdoc"
    /\ IF run.file.pages > 0
       THEN /\ run' = [run EXCEPT !.pc = "getpage", !.n = run.file.pages, !.i = 1,
                                  !.pdfs = @ + 1]
            /\ UNCHANGED <<step, toast, downloadResults>>
       ELSE Fail(run)
    /\ UNCHANGED <<currentTool, files, fileList, modalActive, timers,
                   translateFormat, progress, nRuns>>
    /\ UNCHANGED <<pipeVars, fitVars, eqVars>>

\* await pdf.getPage(i) settles
GetPageSettles(ok) ==
    /\ run.pc = "getpage"
    /\ IF ok
       THEN /\ run' = [run EXCEPT !.pc = "render", !.canvases = @ + 1]
            /\ UNCHANGED <<step, toast, downloadResults>>
       ELSE Fail(run)
    /\ UNCHANGED <<currentTool, files, fileList, modalActive, timers,
                   translateFormat, progress, nRuns>>
    /\ UNCHANGED <<pipeVars, fitVars, eqVars>>

\* mutant of NextPage: the page loop ends one page early
NextPageStopsEarly(r) ==
    IF r.i + 1 < r.n THEN [r EXCEPT !.i = @ + 1, !.pc = "getpage"]
    ELSE [r EXCEPT !.pc = "destroy"]

\* the end of one turn of a page loop: the next page, or pdf.destroy()
NextPage(r) == IF r.i < r.n THEN [r EXCEPT !.i = @ + 1, !.pc = "getpage"]
               ELSE [r EXCEPT !.pc = "destroy"]

\* await page.render(...).promise settles
RenderSettles(ok) ==
    /\ run.pc = "render"
    /\ IF ~ok
       THEN Fail(run) /\ UNCHANGED progress
       ELSE /\ CASE run.tool = "split-pdf" ->
                      /\ run' = NextPage([run EXCEPT
                                   !.results = Append(@, PageName(run.i, <<"p", "d", "f">>)),
                                   !.doc = Append(@, Page(run.file, run.i)),
                                   !.canvases = @ - 1])
                      /\ progress' = UpdateProgress(Pct(run.i, run.n))
                 [] run.tool = "merge-pdf" ->
                      /\ run' = NextPage([run EXCEPT
                                   !.doc = Append(@, Page(run.file, run.i)),
                                   !.canvases = @ - 1])
                      /\ UNCHANGED progress
                 [] OTHER ->
                      /\ run' = [run EXCEPT !.pc = "toblob"]
                      /\ UNCHANGED progress
            /\ UNCHANGED <<step, toast, downloadResults>>
    /\ UNCHANGED <<currentTool, files, fileList, modalActive, timers, translateFormat, nRuns>>
    /\ UNCHANGED <<pipeVars, fitVars, eqVars>>

\* pdfToImages: await fetch(dataUrl).then(r => r.blob()) settles
ToBlobSettles(ok) ==
    /\ run.pc = "toblob"
    /\ IF ok
       THEN /\ run' = NextPage([run EXCEPT
                                   !.results = Append(@, PageName(run.i, OutputFormat)),
                                   !.canvases = @ - 1])
            /\ progress' = UpdateProgress(Pct(run.i, run.n))
            /\ UNCHANGED <<step, toast, downloadResults>>
       ELSE Fail(run) /\ UNCHANGED progress
    /\ UNCHANGED <<currentTool, files, fileList, modalActive, timers, translateFormat, nRuns>>
    /\ UNCHANGED <<pipeVars, fitVars, eqVars>>

\* await pdf.destroy() settles
DestroySettles ==
    /\ run.pc = "destroy"
    /\ LET r == [run EXCEPT !.pdfs = @ - 1] IN
       IF run.tool = "merge-pdf"
       THEN /\ progress' = UpdateProgress(Pct(run.f, Len(files)))
            /\ IF run.f + 1 <= Len(files)
               THEN /\ run' = [r EXCEPT !.f = @ + 1, !.file = files[run.f + 1],
                                        !.pc = "read"]
                    /\ UNCHANGED <<step, toast, downloadResults>>
               ELSE Succeed(r, <<MergedName>>)
       ELSE /\ Succeed(r, run.results)
            /\ UNCHANGED progress
    /\ UNCHANGED <<currentTool, files, fileList, modalActive, timers, translateFormat, nRuns>>
    /\ UNCHANGED <<pipeVars, fitVars, eqVars>>

\* imagesToPDF: await readFileAsDataURL(state.files[i]) settles
ReadUrlSettles(ok) ==
    /\ run.pc = "readurl"
    /\ IF ok
       THEN /\ run' = [run EXCEPT !.pc = "imgload"]
            /\ UNCHANGED <<step, toast, downloadResults>>
       ELSE Fail(run)
    /\ UNCHANGED <<currentTool, files, fileList, modalActive, timers,
                   translateFormat, progress, nRuns>>
    /\ UNCHANGED <<pipeVars, fitVars, eqVars>>

\* imagesToPDF: the image's load event resolves the awaited promise
ImageLoads ==
    /\ run.pc = "imgload"
    /\ run.file.image
    /\ progress' = UpdateProgress(Pct(run.f, Len(files)))
    /\ IF run.f + 1 <= Len(files)
       THEN /\ run' = [run EXCEPT !.f = @ + 1, !.file = files[run.f + 1],
                                  !.pc = "readurl",
                                  !.doc = Append(@, Page(run.file, 1))]
            /\ UNCHANGED <<step, toast, downloadResults>>
       ELSE Succeed([run EXCEPT !.doc = Append(@, Page(run.file, 1))],
                    <<ImagesName>>)
    /\ UNCHANGED <<currentTool, files, fileList, modalActive, timers, translateFormat, nRuns>>
    /\ UNCHANGED <<pipeVars, fitVars, eqVars>>

\* imagesToPDF: the image's error event; img.onerror is not set, the awaited
\* promise has no reject path and stays pending
ImageFails ==
    /\ run.pc = "imgload"
    /\ ~run.file.image
    /\ run' = [IdleRun EXCEPT !.pc = "hung"]
    /\ UNCHANGED <<currentTool, files, fileList, step, modalActive, timers,
                   translateFormat, toast, progress, downloadResults, nRuns>>
    /\ UNCHANGED <<pipeVars, fitVars, eqVars>>

\* the steps that resume the processFiles invocation in flight
RunNext ==
    \/ \E res \in {"ok", "notok", "reject"} : FetchSettles(res)
    \/ ErrJsonSettles
    \/ \E ok \in BOOLEAN : BlobSettles(ok)
    \/ \E ok \in BOOLEAN : ReadSettles(ok)
    \/ MammothSettles
    \/ GetDocSettles
    \/ \E ok \in BOOLEAN : GetPageSettles(ok)
    \/ \E ok \in BOOLEAN : RenderSettles(ok)
    \/ \E ok \in BOOLEAN : ToBlobSettles(ok)
    \/ DestroySettles
    \/ \E ok \in BOOLEAN : ReadUrlSettles(ok)
    \/ ImageLoads
    \/ ImageFails

\* a user who works with the tools that take several files, and who keeps
\* adding files, up to MaxDropped, also while a run is in flight
MaxDropped == 5

DroppedLists == {<<FileC>>, <<FileC, FileC, FileC>>, <<FileB>>, <<FileB, FileB, FileB>>}

ManyFilesNext ==
    \/ \E t \in MultipleTools : OpenTool(t)
    \/ \E fl \in DroppedLists : AddFiles(fl, MaxDropped)
    \/ TimerFires
    \/ ProcessFiles
    \/ \E ok \in BOOLEAN : ReadSettles(ok)
    \/ GetDocSettles
    \/ \E ok \in BOOLEAN : GetPageSettles(ok)
    \/ \E ok \in BOOLEAN : RenderSettles(ok)
    \/ DestroySettles
    \/ \E ok \in BOOLEAN : ReadUrlSettles(ok)
    \/ ImageLoads
    \/ ImageFails

\* what the user does
UserNext ==
    \/ \E t \in ToolNames : OpenTool(t)
    \/ CloseModal
    \/ DismissModal
    \/ \E fl \in FileLists : HandleFiles(fl)
    \/ \E k \in 1..MaxFiles : RemoveFile(k)
    \/ ResetTool
    \/ \E v \in {"html", "pdf"} : SetTranslateFormat(v)
    \/ ProcessFiles

(***************************************************************************)
(* Part II.  The translation pipeline of the backend, for one page:        *)
(* Extractor -> Translation Client Pool -> Layout Fitter -> Reassembler,   *)
(* sequenced by the Orchestrator.                                          *)
(***************************************************************************)
Spans == 1..pDoc.n

NewJob == [st |-> "queued", slot |-> FALSE, provider |-> 1, tries |-> 0,
           attempts |-> 0, result |-> "none"]

\* the text a job's result carries
ResultText(result) == IF result = "translated" THEN "translated" ELSE "original"

\* no converter call to compare
EqIdle ==
    /\ eCall = [tool |-> NoTool, sel |-> <<>>, fail |-> <<"none", 0, 0>>]
    /\ eRam = [out |-> "none", names |-> <<>>, log |-> <<>>]
    /\ eOrig = [out |-> "none", names |-> <<>>, log |-> <<>>]

\* no span at the fitter
FitIdle ==
    /\ fBox = [w |-> 0, h |-> 0]
    /\ fOrig = 0
    /\ fLen = 0
    /\ fPlan = [size |-> 0, lines |-> 0, fits |-> TRUE]

PipeIdle ==
    /\ pPhase = "Received"
    /\ pDoc = [ok |-> TRUE, n |-> 0]
    /\ pJobs = <<>>
    /\ pSlots = 0
    /\ pDeadline = FALSE
    /\ pResults = <<>>
    /\ pPlans = <<>>
    /\ pOutput = <<>>

\* a request arrives with a document: unreadable, or a page of n spans
PipeInit ==
    /\ UiInit
    /\ FitIdle
    /\ EqIdle
    /\ pPhase = "Received"
    /\ pDoc \in {[ok |-> FALSE, n |-> 0]} \cup {[ok |-> TRUE, n |-> k] : k \in 0..MaxSpans}
    /\ pJobs = <<>>
    /\ pSlots = 0
    /\ pDeadline = FALSE
    /\ pResults = <<>>
    /\ pPlans = <<>>
    /\ pOutput = <<>>

\* Orchestrator: Received -> Extracting
BeginExtract ==
    /\ pPhase = "Received"
    /\ pPhase' = "Extracting"
    /\ UNCHANGED <<pDoc, pJobs, pSlots, pDeadline, pResults, pPlans, pOutput>>
    /\ UNCHANGED <<uiVars, fitVars, eqVars>>

\* Span Extractor: the spans in reading order, one TranslationJob each; an
\* unreadable document is the one input error that fails the request
Extract ==
    /\ pPhase = "Extracting"
    /\ IF pDoc.ok
       THEN /\ pPhase' = "Translating"
            /\ pJobs' = [s \in Spans |-> NewJob]
       ELSE /\ pPhase' = "Failed"
            /\ UNCHANGED pJobs
    /\ UNCHANGED <<pDoc, pSlots, pDeadline, pResults, pPlans, pOutput>>
    /\ UNCHANGED <<uiVars, fitVars, eqVars>>

\* mutant of Acquire: a slot is handed out without looking at the limit
AcquireUnbounded(s) ==
    /\ pPhase = "Translating"
    /\ pJobs[s].st = "queued"
    /\ pSlots' = pSlots + 1
    /\ pJobs' = [pJobs EXCEPT ![s].st = "ready", ![s].slot = TRUE]
    /\ UNCHANGED <<pPhase, pDoc, pDeadline, pResults, pPlans, pOutput>>
    /\ UNCHANGED <<uiVars, fitVars, eqVars>>

\* Translation Client Pool: a job acquires a pool slot
Acquire(s) ==
    /\ pPhase = "Translating"
    /\ pJobs[s].st = "queued"
    /\ pSlots < PoolLimit
    /\ pSlots' = pSlots + 1
    /\ pJobs' = [pJobs EXCEPT ![s].st = "ready", ![s].slot = TRUE]
    /\ UNCHANGED <<pPhase, pDoc, pDeadline, pResults, pPlans, pOutput>>
    /\ UNCHANGED <<uiVars, fitVars, eqVars>>

\* a job holding a slot attempts its current provider
Call(s) ==
    /\ pPhase = "Translating"
    /\ pJobs[s].st = "ready"
    /\ pJobs' = [pJobs EXCEPT ![s].st = "calling", ![s].attempts = @ + 1]
    /\ UNCHANGED <<pPhase, pDoc, pSlots, pDeadline, pResults, pPlans, pOutput>>
    /\ UNCHANGED <<uiVars, fitVars, eqVars>>

\* a job ends with a result: the slot is released and the result delivered
Finish(s, result) ==
    /\ pJobs' = [pJobs EXCEPT ![s].st = "done", ![s].slot = FALSE,
                              ![s].result = result]
    /\ pSlots' = pSlots - 1
    /\ pResults' = Append(pResults, [span |-> s, text |-> ResultText(result)])

\* the provider answers the call in flight
CallSucceeds(s) ==
    /\ pPhase = "Translating"
    /\ pJobs[s].st = "calling"
    /\ Finish(s, "translated")
    /\ UNCHANGED <<pPhase, pDoc, pDeadline, pPlans, pOutput>>
    /\ UNCHANGED <<uiVars, fitVars, eqVars>>

\* mutant of CallFails: the first transient failure already advances the job
\* to the next provider
CallFailsSkipsRetries(s) ==
    /\ pPhase = "Translating"
    /\ pJobs[s].st = "calling"
    /\ IF pJobs[s].provider < NProviders
       THEN /\ pJobs' = [pJobs EXCEPT ![s].st = "ready", ![s].tries = 0,
                                      ![s].provider = @ + 1]
            /\ UNCHANGED <<pSlots, pResults>>
       ELSE Finish(s, "softfail")
    /\ UNCHANGED <<pPhase, pDoc, pDeadline, pPlans, pOutput>>
    /\ UNCHANGED <<uiVars, fitVars, eqVars>>

\* the call in flight fails transiently (timeout, 5xx, rate limit): retry,
\* then the next provider, then the original text with a soft-failure marker
CallFails(s) ==
    /\ pPhase = "Translating"
    /\ pJobs[s].st = "calling"
    /\ IF pJobs[s].tries + 1 < MaxAttempts
       THEN /\ pJobs' = [pJobs EXCEPT ![s].st = "ready", ![s].tries = @ + 1]
            /\ UNCHANGED <<pSlots, pResults>>
       ELSE IF pJobs[s].provider < NProviders
       THEN /\ pJobs' = [pJobs EXCEPT ![s].st = "ready", ![s].tries = 0,
                                      ![s].provider = @ + 1]
            /\ UNCHANGED <<pSlots, pResults>>
       ELSE Finish(s, "softfail")
    /\ UNCHANGED <<pPhase, pDoc, pDeadline, pPlans, pOutput>>
    /\ UNCHANGED <<uiVars, fitVars, eqVars>>

\* the spans of seq, a sequence of span numbers, as pass-through results
RECURSIVE PassThrough(_)
PassThrough(seq) ==
    IF seq = <<>> THEN <<>>
    ELSE <<[span |-> Head(seq), text |-> "original"]>> \o PassThrough(Tail(seq))

\* the span numbers in set, ascending
RECURSIVE Ascending(_)
Ascending(set) ==
    IF set = {} THEN <<>>
    ELSE LET m == CHOOSE x \in set : \A y \in set : x <= y
         IN <<m>> \o Ascending(set \ {m})

\* mutant of DeadlineReached: the spans still untranslated are dropped
DeadlineDropsPending ==
    /\ pPhase = "Translating"
    /\ ~pDeadline
    /\ pDeadline' = TRUE
    /\ pJobs' = [s \in Spans |->
                    IF pJobs[s].st = "done" THEN pJobs[s]
                    ELSE [pJobs[s] EXCEPT !.st = "done", !.slot = FALSE,
                                          !.result = "passthrough"]]
    /\ pSlots' = 0
    /\ UNCHANGED <<pPhase, pDoc, pResults, pPlans, pOutput>>
    /\ UNCHANGED <<uiVars, fitVars, eqVars>>

\* mutant of DeadlineReached: the deadline fails the request
DeadlineFailsRequest ==
    /\ pPhase = "Translating"
    /\ ~pDeadline
    /\ pDeadline' = TRUE
    /\ pPhase' = "Failed"
    /\ UNCHANGED <<pDoc, pJobs, pSlots, pResults, pPlans, pOutput>>
    /\ UNCHANGED <<uiVars, fitVars, eqVars>>

\* Orchestrator: the request-level deadline is reached; calls in flight are
\* abandoned and every span not yet translated passes through with its
\* original text
DeadlineReached ==
    /\ pPhase = "Translating"
    /\ ~pDeadline
    /\ pDeadline' = TRUE
    /\ pJobs' = [s \in Spans |->
                    IF pJobs[s].st = "done" THEN pJobs[s]
                    ELSE [pJobs[s] EXCEPT !.st = "done", !.slot = FALSE,
                                          !.result = "passthrough"]]
    /\ pSlots' = 0
    /\ pResults' = pResults \o
                   PassThrough(Ascending({s \in Spans : pJobs[s].st # "done"}))
    /\ UNCHANGED <<pPhase, pDoc, pPlans, pOutput>>
    /\ UNCHANGED <<uiVars, fitVars, eqVars>>

\* Orchestrator: Translating -> Fitting, once every job has its result
BeginFitting ==
    /\ pPhase = "Translating"
    /\ \A s \in Spans : pJobs[s].st = "done"
    /\ pPhase' = "Fitting"
    /\ UNCHANGED <<pDoc, pJobs, pSlots, pDeadline, pResults, pPlans, pOutput>>
    /\ UNCHANGED <<uiVars, fitVars, eqVars>>

\* Layout Fitter: the RenderPlan of the next delivered result
Fit ==
    /\ pPhase = "Fitting"
    /\ pResults # <<>>
    /\ pPlans' = Append(pPlans, Head(pResults))
    /\ pResults' = Tail(pResults)
    /\ UNCHANGED <<pPhase, pDoc, pJobs, pSlots, pDeadline, pOutput>>
    /\ UNCHANGED <<uiVars, fitVars, eqVars>>

\* Orchestrator: Fitting -> Reassembling, once every result has its plan
BeginReassemble ==
    /\ pPhase = "Fitting"
    /\ pResults = <<>>
    /\ pPhase' = "Reassembling"
    /\ UNCHANGED <<pDoc, pJobs, pSlots, pDeadline, pResults, pPlans, pOutput>>
    /\ UNCHANGED <<uiVars, fitVars, eqVars>>

\* mutant of NextPlan: the plans are drawn in the order they were produced
FirstPlan ==
    CHOOSE k \in 1..Len(pPlans) : \A j \in 1..Len(pPlans) : k <= j

\* Page Reassembler: the position in pPlans of the plan to draw next, the
\* one of the lowest reading-order index
NextPlan ==
    CHOOSE k \in 1..Len(pPlans) :
        \A j \in 1..Len(pPlans) : pPlans[k].span <= pPlans[j].span

\* Page Reassembler: consume one plan and draw its region; a span whose
\* drawing fails keeps its original text
Reassemble(drawn) ==
    /\ pPhase = "Reassembling"
    /\ pPlans # <<>>
    /\ LET k == NextPlan
           plan == pPlans[k]
       IN /\ pOutput' = Append(pOutput,
                 [span |-> plan.span,
                  text |-> IF drawn THEN plan.text ELSE "original"])
          /\ pPlans' = SubSeq(pPlans, 1, k - 1) \o SubSeq(pPlans, k + 1, Len(pPlans))
    /\ UNCHANGED <<pPhase, pDoc, pJobs, pSlots, pDeadline, pResults>>
    /\ UNCHANGED <<uiVars, fitVars, eqVars>>

\* Orchestrator: Reassembling -> Completed, once every plan is consumed
Complete ==
    /\ pPhase = "Reassembling"
    /\ pPlans = <<>>
    /\ pPhase' = "Completed"
    /\ UNCHANGED <<pDoc, pJobs, pSlots, pDeadline, pResults, pPlans, pOutput>>
    /\ UNCHANGED <<uiVars, fitVars, eqVars>>

PipeNext ==
    \/ BeginExtract
    \/ Extract
    \/ \E s \in Spans : Acquire(s)
    \/ \E s \in Spans : Call(s)
    \/ \E s \in Spans : CallSucceeds(s)
    \/ \E s \in Spans : CallFails(s)
    \/ DeadlineReached
    \/ BeginFitting
    \/ Fit
    \/ BeginReassemble
    \/ \E drawn \in BOOLEAN : Reassemble(drawn)
    \/ Complete

(***************************************************************************)
(* Part III.  The Layout Fitter as a function of the span's box, its       *)
(* original font size and the translated text.  Lengths are in points; a   *)
(* glyph of size z advances z and a line of size z is z high.              *)
(***************************************************************************)
\* the fixed shrink decrement, in points
ShrinkStep == 1
\* the floor of shrinking, in percent of the original size
FloorPct == 60

\* the legibility floor for an original size, rounded up
FloorSize(orig) == (orig * FloorPct + 99) \div 100

\* the text of len characters fits on one line of the box at size z
FitsOneLine(box, z, len) == len * z <= box.w /\ z <= box.h

\* steps 1 and 2: from size z, shrink by the fixed step while the text
\* overflows and the floor allows
RECURSIVE ShrinkToFit(_, _, _, _)
ShrinkToFit(box, z, floor, len) ==
    IF FitsOneLine(box, z, len) \/ z - ShrinkStep < floor THEN z
    ELSE ShrinkToFit(box, z - ShrinkStep, floor, len)

\* step 3: the lines the text takes when wrapped within the box width
WrappedLines(box, z, len) ==
    LET perLine == box.w \div z
    IN IF perLine = 0 THEN len + 1 ELSE (len + perLine - 1) \div perLine

\* mutant of FitPlan: a text that has to be truncated is drawn at the
\* original size
FitPlanTruncatesAtOriginal(box, orig, len) ==
    LET z == ShrinkToFit(box, orig, FloorSize(orig), len) IN
    IF FitsOneLine(box, z, len) THEN [size |-> z, lines |-> 1, fits |-> TRUE]
    ELSE IF WrappedLines(box, z, len) * z <= box.h
    THEN [size |-> z, lines |-> WrappedLines(box, z, len), fits |-> TRUE]
    ELSE [size |-> orig, lines |-> box.h \div orig, fits |-> FALSE]

\* the RenderPlan: shrink, then wrap at the size reached, then truncate
FitPlan(box, orig, len) ==
    LET z == ShrinkToFit(box, orig, FloorSize(orig), len) IN
    IF FitsOneLine(box, z, len) THEN [size |-> z, lines |-> 1, fits |-> TRUE]
    ELSE IF WrappedLines(box, z, len) * z <= box.h
    THEN [size |-> z, lines |-> WrappedLines(box, z, len), fits |-> TRUE]
    ELSE [size |-> z, lines |-> box.h \div z, fits |-> FALSE]

\* a span's box and original size, and the plan of a one-character text
FitInit ==
    /\ UiInit
    /\ PipeIdle
    /\ EqIdle
    /\ fBox \in [w : {24, 48, 72}, h : {12, 24}]
    /\ fOrig \in {10, 12}
    /\ fLen = 1
    /\ fPlan = FitPlan(fBox, fOrig, fLen)

\* the same box is fitted with a text one character longer
FitLonger ==
    /\ fLen < MaxTextLen
    /\ fLen' = fLen + 1
    /\ fPlan' = FitPlan(fBox, fOrig, fLen')
    /\ UNCHANGED <<fBox, fOrig>>
    /\ UNCHANGED <<uiVars, pipeVars, eqVars>>

FitNext == FitLonger

(***************************************************************************)
(* Part IV.  The converters of js/converters.js beside the converters of   *)
(* unnamed/part_000 they were derived from.  A converter call is the       *)
(* sequence of its awaits and of its updateProgress calls, in program      *)
(* order; it runs until an await rejects or never settles.  The files      *)
(* selected stay the same during the call.                                 *)
(***************************************************************************)
Converters == {"pdf-to-word", "word-to-pdf", "jpg-to-pdf", "pdf-to-jpg",
               "merge-pdf", "split-pdf", "compress-pdf"}

\* the converters that take every selected file; the others take files[0]
TakesAll == {"jpg-to-pdf", "merge-pdf"}

\* the converters that js/converters.js ends with pdf.destroy()
Destroys == {"pdf-to-jpg", "merge-pdf", "split-pdf", "compress-pdf"}

Await(kind, f, i) == [k |-> "await", id |-> <<kind, f, i>>, v |-> 0]
Progress(p) == [k |-> "progress", id |-> <<"none", 0, 0>>, v |-> p]
\* an await on a promise that rejects whatever the environment does
Rejects == [k |-> "reject", id |-> <<"none", 0, 0>>, v |-> 0]
\* an await on a promise that nothing settles
Pending == [k |-> "pending", id |-> <<"none", 0, 0>>, v |-> 0]

\* the body of the page loop for page i of the n pages of file f
PageSteps(tool, f, i, n) ==
    <<Await("getpage", f, i)>>
    \o (IF tool = "pdf-to-word" THEN <<Await("gettext", f, i)>>
                                ELSE <<Await("render", f, i)>>)
    \o (IF tool = "pdf-to-jpg" THEN <<Await("toblob", f, i)>> ELSE <<>>)
    \o (IF tool = "merge-pdf" THEN <<>> ELSE <<Progress(Pct(i, n))>>)

RECURSIVE PageLoop(_, _, _, _)
\* for (let i = 1; i <= pdf.numPages; i++), from page i on
PageLoop(tool, f, i, n) ==
    IF i > n THEN <<>>
    ELSE PageSteps(tool, f, i, n) \o PageLoop(tool, f, i + 1, n)

\* what follows the page loop of file f: the RAM-optimised converters destroy
\* the document, and mergePDFs reports the file done
AfterPagesDestroyOnly(ram, tool, f, nfiles) ==
    IF ram /\ tool \in Destroys THEN <<Await("destroy", f, 0)>>
    ELSE IF tool = "merge-pdf" THEN <<Progress(Pct(f, nfiles))>> ELSE <<>>

AfterPages(ram, tool, f, nfiles) ==
    (IF ram /\ tool \in Destroys THEN <<Await("destroy", f, 0)>> ELSE <<>>)
    \o (IF tool = "merge-pdf" THEN <<Progress(Pct(f, nfiles))>> ELSE <<>>)

\* one PDF: read it, open it, walk its pages
PdfSteps(ram, tool, file, f, nfiles) ==
    <<Await("read", f, 0), Await("getdoc", f, 0)>>
    \o (IF file.pages = 0 THEN <<Rejects>>
        ELSE PageLoop(tool, f, 1, file.pages) \o AfterPages(ram, tool, f, nfiles))

\* one image of imagesToPDF: img.onload is the only handler installed
ImageSteps(file, f, nfiles) ==
    <<Await("readurl", f, 0)>>
    \o (IF file.image THEN <<Await("imgload", f, 0)>> ELSE <<Pending>>)
    \o <<Progress(Pct(f, nfiles))>>

RECURSIVE FileLoop(_, _, _, _)
\* for (let f = 0; f < state.files.length; f++), from the f-th file on
FileLoop(ram, tool, sel, f) ==
    IF f > Len(sel) THEN <<>>
    ELSE (IF tool = "merge-pdf" THEN PdfSteps(ram, tool, sel[f], f, Len(sel))
                                ELSE ImageSteps(sel[f], f, Len(sel)))
         \o FileLoop(ram, tool, sel, f + 1)

\* the awaits and updateProgress calls of a converter, in program order
ConverterSteps(ram, tool, sel) ==
    IF tool \in TakesAll THEN FileLoop(ram, tool, sel, 1)
    ELSE IF tool = "word-to-pdf"
    THEN <<Await("read", 1, 0), Progress(50), Progress(100)>>
    ELSE PdfSteps(ram, tool, sel[1], 1, 1)

\* the results a converter returns
ConverterResults(tool, sel) ==
    CASE tool = "pdf-to-word" -> <<Replace(sel[1].name, DotPdf, DotHtml)>>
      [] tool = "word-to-pdf" -> <<WordPdfName(sel[1].name)>>
      [] tool = "jpg-to-pdf" -> <<ImagesName>>
      [] tool = "pdf-to-jpg" -> [i \in 1..sel[1].pages |-> PageName(i, OutputFormat)]
      [] tool = "merge-pdf" -> <<MergedName>>
      [] tool = "split-pdf" -> [i \in 1..sel[1].pages |-> PageName(i, DotPdf)]
      [] OTHER -> <<Replace(sel[1].name, DotPdf,
                            <<"_", "s", "i", "k", "i", "s", "t", "i", "r", "i", "l",
                              "m", "i", "s">> \o DotPdf)>>

RECURSIVE Walk(_, _, _, _)
\* run the steps from the k-th on: the call returns its results, throws at
\* the first await that rejects, or stays suspended
Walk(steps, k, fail, log) ==
    IF k > Len(steps) THEN [out |-> "returned", log |-> log]
    ELSE IF steps[k].k = "progress"
    THEN Walk(steps, k + 1, fail, Append(log, steps[k].v))
    ELSE IF steps[k].k = "pending" THEN [out |-> "suspended", log |-> log]
    ELSE IF steps[k].k = "reject" \/ steps[k].id = fail
    THEN [out |-> "thrown", log |-> log]
    ELSE Walk(steps, k + 1, fail, log)

\* a converter call as processFiles observes it
Convert(ram, call) ==
    LET w == Walk(ConverterSteps(ram, call.tool, call.sel), 1, call.fail, <<>>) IN
    [out |-> w.out,
     names |-> IF w.out = "returned" THEN ConverterResults(call.tool, call.sel)
               ELSE <<>>,
     log |-> w.log]

\* the awaits the environment may reject: every one but pdf.destroy(), and
\* mammoth's, whose rejection wordToPDF catches
FailPoints ==
    {<<"none", 0, 0>>}
    \cup {<<kind, f, 0>> : kind \in {"read", "getdoc", "readurl", "imgload"}, f \in 1..2}
    \cup {<<kind, f, i>> : kind \in {"getpage", "gettext", "render", "toblob"},
                           f \in 1..2, i \in 1..2}

\* the selections compared: PDFs of one and two pages, a Word file, images
EqSelections ==
    FileLists \cup {<<FileA, FileB>>, <<FileB, FileA>>, <<FileC, FileC>>}

EqInit ==
    /\ UiInit
    /\ PipeIdle
    /\ FitIdle
    /\ eCall \in [tool : Converters, sel : EqSelections, fail : FailPoints]
    /\ eRam = [out |-> "none", names |-> <<>>, log |-> <<>>]
    /\ eOrig = [out |-> "none", names |-> <<>>, log |-> <<>>]

\* the converter of js/converters.js is called
CallRam ==
    /\ eRam.out = "none"
    /\ eRam' = Convert(TRUE, eCall)
    /\ UNCHANGED <<eCall, eOrig>>
    /\ UNCHANGED <<uiVars, pipeVars, fitVars>>

\* the converter of unnamed/part_000 is called
CallOrig ==
    /\ eOrig.out = "none"
    /\ eOrig' = Convert(FALSE, eCall)
    /\ UNCHANGED <<eCall, eRam>>
    /\ UNCHANGED <<uiVars, pipeVars, fitVars>>

EqNext == CallRam \/ CallOrig

(***************************************************************************)
(* The specifications.                                                     *)
(***************************************************************************)
Init == UiInit /\ PipeIdle /\ FitIdle /\ EqIdle

Next == UserNext \/ TimerFires \/ RunNext

\* the front end
Spec == Init /\ [][Next]_vars

\* the translation pipeline
PipeSpec == PipeInit /\ [][PipeNext]_vars

\* the Layout Fitter, applied to longer and longer texts for one box
FitSpec == FitInit /\ [][FitNext]_vars

\* the front end with selections of up to MaxDropped files
ManyFilesSpec == Init /\ [][ManyFilesNext]_vars

\* the two versions of the converters, called on the same files
EqSpec == EqInit /\ [][EqNext]_vars

\* the translation pipeline whose stages keep running: the orchestrator and
\* the workers are scheduled as long as one of them has a step to take
PipeLive == PipeInit /\ [][PipeNext]_vars /\ WF_vars(PipeNext)


(***************************************************************************)
(* Properties of processFiles.                                             *)
(***************************************************************************)
\* the step in which the invocation in flight returns or throws
Settles == run.pc \in Awaiting /\ run'.pc = "done"

\* the results step with the success toast, reached through showResults
SuccessOutcome ==
    /\ run.shown
    /\ step = 4
    /\ toast = "success"
    /\ run.okToasts >= 1
    /\ run.errToasts = 0

\* one error toast 'Hata: ...' and the wizard back at step 2
ErrorOutcome ==
    /\ ~run.shown
    /\ step = 2
    /\ toast = "error"
    /\ run.errToasts = 1
    /\ run.okToasts = 0

\* C1: every processFiles run started with at least one selected file
\* settles in exactly one of two outcomes, the results step 4 with the
\* success toast or one error toast with the wizard back at step 2; never
\* both, and never with the wizard left in the processing step 3.
C1_ExactlyOneOutcome ==
    [][Settles =>
          /\ (SuccessOutcome' \/ ErrorOutcome')
          /\ ~(SuccessOutcome' /\ ErrorOutcome')
          /\ step' # 3]_uiVars

\* a run has settled in the results step
C1_Witness ==
    /\ run.pc = "done"
    /\ SuccessOutcome
    /\ Len(downloadResults) = 1

\* C2 as claimed: a failure of the translation backend (the request
\* rejects, or answers with an error status) is never surfaced as an error;
\* the translate operation still returns a result.
C2_BackendFailureNotSurfaced ==
    [][(run.tool = "translate" /\ run.pc \in {"fetch", "errjson"} /\ run'.pc = "done")
          => (run'.shown /\ toast' # "error" /\ step' # 2)]_uiVars

\* C3 as claimed: a run that has entered the processing step can always
\* be resumed, so that it leaves step 3 for step 4 or step 2.
C3_RunCanAlwaysSettle ==
    (run.pc \notin {"idle", "done"}) => ENABLED RunNext

\* C4 as claimed: a translation sends exactly one POST, to /translate-html
\* exactly when the selected format is 'html' and to /translate otherwise,
\* and the result is named with the extension of the requested mode.
C4_ModeSelectsEndpointAndLabel ==
    [][(run.tool = "translate" /\ Settles /\ run'.shown) =>
          /\ Len(run.posts) = 1
          /\ (run.posts[1] = "/translate-html") <=> (run.format = "html")
          /\ (run.posts[1] = "/translate") <=> (run.format # "html")
          /\ Len(downloadResults') = 1
          /\ EndsWith(downloadResults'[1],
                      IF run.format = "html" THEN DotHtml ELSE DotPdf)]_uiVars

\* the step in which the catch block of processFiles runs
FailureStep == Settles /\ run'.errToasts > run.errToasts

C6_EmptySelectionRejected ==
    [][/\ (toast' = "select" /\ toast # "select") =>
             /\ Len(files) = 0
             /\ UNCHANGED <<currentTool, files, fileList, step, modalActive,
                            timers, translateFormat, progress,
                            downloadResults, run, nRuns>>
       /\ (Len(files) = 0 /\ run.pc \notin Awaiting) =>
             /\ run'.pc \notin Awaiting
             /\ nRuns' = nRuns]_uiVars

\* the rejection toast is up, the process button having been pressed at
\* step 2 with nothing selected
C6_Witness ==
    /\ toast = "select"
    /\ Len(files) = 0
    /\ step = 2
    /\ modalActive
    /\ nRuns = 0


(***************************************************************************)
(* Properties of the translation pipeline.                                 *)
(***************************************************************************)
\* the number of entries of seq that belong to span s
RECURSIVE CountSpan(_, _)
CountSpan(seq, s) ==
    IF seq = <<>> THEN 0
    ELSE (IF Head(seq).span = s THEN 1 ELSE 0) + CountSpan(Tail(seq), s)

\* C7: every span that entered the pipeline has exactly one RenderPlan
\* (translated or original text) before its page is reassembled, and the
\* reassembled page of a document with N spans has exactly N regions, each
\* span once, whatever the outcome of the translation calls.
C7_EverySpanRenderedOnce ==
    /\ pPhase \in {"Reassembling", "Completed"} =>
          \A s \in Spans : CountSpan(pPlans, s) + CountSpan(pOutput, s) = 1
    /\ pPhase = "Completed" =>
          /\ Len(pOutput) = pDoc.n
          /\ \A s \in Spans : CountSpan(pOutput, s) = 1

\* a page is complete whose spans ended translated, by soft failure and by
\* the deadline
C7_Witness ==
    /\ pPhase = "Completed"
    /\ pDoc.n = MaxSpans
    /\ \E s \in Spans : pJobs[s].result = "translated"
    /\ \E s \in Spans : pJobs[s].result = "softfail"
    /\ \E s \in Spans : pJobs[s].result = "passthrough"

\* C8: the regions of the reassembled page are in the extractor's reading
\* order, for every order in which the translation calls complete.
C8_ReadingOrderPreserved ==
    \A k \in 1..Len(pOutput) : pOutput[k].span = k

\* the first region is drawn while the remaining plans, produced in
\* completion order, are not in reading order
C8_Witness ==
    /\ pPhase = "Reassembling"
    /\ Len(pOutput) >= 1
    /\ Len(pPlans) >= 2
    /\ pPlans[1].span > pPlans[2].span

\* C9: a request whose deadline is reached while spans are untranslated
\* never fails and ends in Completed, and its page then has a region for
\* every span, the spans cut off by the deadline with their original text.
C9_DeadlineStillCompletes ==
    /\ [](pDeadline =>
            /\ pPhase # "Failed"
            /\ pPhase = "Completed" =>
                  \A s \in Spans :
                     \E k \in 1..Len(pOutput) :
                        /\ pOutput[k].span = s
                        /\ pJobs[s].result = "passthrough" =>
                               pOutput[k].text = "original")
    /\ (pDeadline ~> pPhase = "Completed")

\* completed after the deadline, with a span translated before it and a
\* span passed through
C9_Witness ==
    /\ pDeadline
    /\ pPhase = "Completed"
    /\ \E s \in Spans : pJobs[s].result = "passthrough"
    /\ \E k \in 1..Len(pOutput) : pOutput[k].text = "translated"

\* C10: the calls in flight never exceed the pool limit, and a job has a
\* call in flight only while it holds a pool slot.
C10_BoundedInFlight ==
    /\ Cardinality({s \in DOMAIN pJobs : pJobs[s].st = "calling"}) <= PoolLimit
    /\ \A s \in DOMAIN pJobs : pJobs[s].st = "calling" => pJobs[s].slot
    /\ pSlots = Cardinality({s \in DOMAIN pJobs : pJobs[s].slot})
    /\ pSlots <= PoolLimit

\* the pool is full, with every slot's call in flight and a job waiting
C10_Witness ==
    /\ pSlots = PoolLimit
    /\ Cardinality({s \in DOMAIN pJobs : pJobs[s].st = "calling"}) = PoolLimit
    /\ \E s \in DOMAIN pJobs : pJobs[s].st = "queued"

\* the attempts a job has made, from the provider it is at and the failures
\* it has seen there: every earlier provider took its whole attempt count
AttemptsOf(j) ==
    (j.provider - 1) * MaxAttempts + j.tries
        + (IF j.st = "calling" \/ j.result \in {"translated", "softfail"}
           THEN 1 ELSE 0)

\* C11: the providers of a job are attempted in fallback-list order, the next
\* one only after the current one failed for its whole attempt count, and the
\* job's attempt count is the number of attempts made (MaxAttempts on the
\* primary and one on the secondary when the secondary answers first time).
C11_FallbackOrderAndAttemptCount ==
    /\ [](\A s \in DOMAIN pJobs :
            \/ pJobs[s].attempts = AttemptsOf(pJobs[s])
            \/ /\ pJobs[s].result = "passthrough"
               /\ pJobs[s].attempts \in {AttemptsOf(pJobs[s]), AttemptsOf(pJobs[s]) + 1})
    /\ [][\A s \in DOMAIN pJobs :
            (pJobs' # <<>> /\ pJobs'[s].provider # pJobs[s].provider) =>
                /\ pJobs[s].st = "calling"
                /\ pJobs[s].tries = MaxAttempts - 1
                /\ pJobs'[s].provider = pJobs[s].provider + 1
                /\ pJobs'[s].tries = 0]_vars

\* the primary failed MaxAttempts times and the secondary answered its first
\* call
C11_Witness ==
    \E s \in DOMAIN pJobs :
        /\ pJobs[s].result = "translated"
        /\ pJobs[s].provider = 2
        /\ pJobs[s].tries = 0
        /\ pJobs[s].attempts = MaxAttempts + 1

(***************************************************************************)
(* Properties of the Layout Fitter.                                        *)
(***************************************************************************)
\* C12: fit monotonicity: for a fixed box the font size the fitter chooses
\* for a text is never larger than the size it chooses for a shorter text.
C12_FitMonotone ==
    \A len \in 0..fLen : FitPlan(fBox, fOrig, len).size >= fPlan.size

\* the longest text is truncated at the floor size, below the original size
C12_Witness ==
    /\ fLen = MaxTextLen
    /\ ~fPlan.fits
    /\ fPlan.size = FloorSize(fOrig)
    /\ fPlan.size < fOrig

(***************************************************************************)
(* Properties of the wizard and of the converters.                         *)
(***************************************************************************)
\* C13: every tool processFiles can dispatch is usable from the page: the
\* click that selects it opens the tool modal, the tool selected while the
\* modal is up has the toolConfig entry that lets handleFiles accept files,
\* and so a run of its handler can be started.
C13_EveryToolUsable ==
    /\ [][(currentTool' # currentTool /\ currentTool' \in BackendTools \cup BrowserTools)
            => modalActive']_vars
    /\ [](currentTool \in BackendTools \cup BrowserTools => HasConfig(currentTool))

\* pages 1..n of a file, in page order
RECURSIVE PagesUpTo(_, _)
PagesUpTo(file, n) ==
    IF n = 0 THEN <<>> ELSE Append(PagesUpTo(file, n - 1), Page(file, n))

\* the pages of the files of a selection, in selection order, then page order
RECURSIVE PagesOf(_)
PagesOf(sel) ==
    IF sel = <<>> THEN <<>>
    ELSE PagesUpTo(Head(sel), Head(sel).pages) \o PagesOf(Tail(sel))

\* C14: a merge-pdf run that shows its result returns the one file
\* 'birlesik.pdf', whose pages are the pages of all files selected when the
\* run started, in selection order and then page order, each exactly once.
C14_MergeHasAllPages ==
    [][(run.tool = "merge-pdf" /\ Settles /\ run'.shown) =>
          /\ downloadResults' = <<MergedName>>
          /\ run'.doc = PagesOf(run.start)]_vars

RECURSIVE OnePageEach(_)
OnePageEach(sel) ==
    IF sel = <<>> THEN <<>> ELSE <<Page(Head(sel), 1)>> \o OnePageEach(Tail(sel))

\* C16: a jpg-to-pdf run that shows its result returns the one file
\* 'gorseller.pdf', with exactly one page per selected image, in selection
\* order.
C16_ImagesOnePageEach ==
    [][(run.tool = "jpg-to-pdf" /\ Settles /\ run'.shown) =>
          /\ downloadResults' = <<ImagesName>>
          /\ run'.doc = OnePageEach(run.start)]_vars

\* C17: single-file mode: while the tool selected is one whose toolConfig
\* entry is not 'multiple', state.files holds at most one file, whatever
\* handleFiles calls (input changes, drops of one or several files) were made.
C17_SingleFileMode ==
    (HasConfig(currentTool) /\ currentTool \notin MultipleTools) => Len(files) <= 1

\* C18: whenever the wizard displays step 2, the options of the tool modal,
\* state.files is not empty: the goToStep(2) handleFiles schedules does not
\* show step 2 after the files were removed, the tool was reset, the modal
\* closed or another tool opened.
C18_StepTwoHasFiles ==
    (modalActive /\ step = 2) => Len(files) > 0

\* C19: a run settles, showing its results and success toast at step 4 or
\* its error toast at step 2, only while the tool modal is still up with the
\* tool it was started for as state.currentTool, and the results it shows
\* are those of the files in state.files.
C19_ResultsBelongToCurrentTool ==
    [][Settles =>
          /\ modalActive
          /\ currentTool = run.tool
          /\ run'.shown => files = run.start]_vars

\* C20: whenever the tool modal is not active the selection state is reset:
\* state.files is empty and state.currentTool is null, however the modal
\* was closed.
C20_ClosedModalIsReset ==
    ~modalActive => (files = <<>> /\ currentTool = NoTool)

\* C21: while a tool is open, the file items displayed in #fileList are, one
\* to one and in order, the entries of state.files, after any adding of
\* files and clicking of remove buttons.
C21_ListMatchesFiles ==
    modalActive => fileList = files

\* C22: the converters release what they acquire on every exit: when an
\* operation has settled, by return or by throw, every PDF document it opened
\* has been destroyed, once, and every canvas it created has been passed to
\* cleanupCanvas.
C22_ResourcesReleased ==
    /\ run.pdfs >= 0 /\ run.canvases >= 0
    /\ run.pc = "done" => (run.pdfs = 0 /\ run.canvases = 0)

ProducedSuffix(tool, format) ==
    CASE tool = "translate" ->
            CeviriTr \o (IF format = "html" THEN DotHtml ELSE DotPdf)
      [] tool = "pdf-to-word" -> <<".", "d", "o", "c", "x">>
      [] tool = "pdf-to-excel" -> <<".", "x", "l", "s", "x">>
      [] tool = "pdf-to-images" ->
            <<"_", "i", "m", "a", "g", "e", "s", ".", "z", "i", "p">>
      [] OTHER -> <<"_", "c", "o", "m", "p", "r", "e", "s", "s", "e", "d">> \o DotPdf

\* C24: whatever the name of the input file, the result a backend operation
\* (translate, pdf-to-word, pdf-to-excel, pdf-to-images, compress-pdf) shows
\* has a name that differs from the input's and ends with the extension of
\* the format produced.
C24_ResultNameHasProducedExtension ==
    [][(/\ run.pc = "blob" /\ run'.pc = "done" /\ run'.shown
        /\ run.tool \in BackendTools \ {"pdf-to-image"})
       => /\ downloadResults'[1] # run.file.name
          /\ EndsWith(downloadResults'[1], ProducedSuffix(run.tool, run.format))]_vars

(***************************************************************************)
(* Properties of the progress bar.                                         *)
(***************************************************************************)
\* the invocation is suspended at an await
InFlight(r) == r.pc \in Awaiting

\* C25: within one processFiles run the values passed to updateProgress
\* never go down (the width displayed, which is the value capped at 100,
\* never goes down), the first is 0 (a backend operation passes 0, 10 and 30
\* before its first await), 100 is reached before the results are shown, and
\* the width displayed never exceeds 100%.
C25_ProgressMonotone ==
    /\ [](progress <= 100)
    /\ [][(~InFlight(run) /\ InFlight(run'))
           => progress' = (IF run'.tool \in BackendTools THEN 30 ELSE 0)]_vars
    /\ [][(InFlight(run) /\ run'.pc # "idle") => progress' >= progress]_vars
    /\ [][(InFlight(run) /\ run'.shown) => progress' = 100]_vars

(***************************************************************************)
(* Properties of the wizard's steps.                                       *)
(***************************************************************************)
\* C26: openTool called with a tool name that has no toolConfig entry has
\* no effect: state.currentTool and state.files keep their values, the
\* wizard step is unchanged and the modal is not opened.
C26_UnknownToolNoEffect ==
    [][\A t \in ToolNames \ ConfiguredTools :
          OpenTool(t) => UNCHANGED <<currentTool, files, step, modalActive>>]_vars

\* goToStep(n): the display of the panels #step1..#step4
Panels(n) == [i \in 1..4 |-> i = n]

\* C27: step 4 is entered only from step 3, by the run that succeeds; step 3
\* is entered only by processFiles called with a non-empty state.files; and
\* after each goToStep exactly one of the four step panels is visible.
C27_StepTransitions ==
    /\ [](Cardinality({i \in 1..4 : Panels(step)[i]}) = 1)
    /\ [][(step' = 3 /\ step # 3)
           => (Len(files) > 0 /\ ~InFlight(run) /\ InFlight(run'))]_vars
    /\ [][(step' = 4 /\ step # 4)
           => (step = 3 /\ InFlight(run) /\ run'.shown)]_vars

====
